---------------------------- MODULE Spec2Model ----------------------------
(***************************************************************************)
(* Weekly multi-currency portfolio tracker: the detailed dashboard         *)
(* (FinancialDashboard), the summary view (PortfolioSummary) and the       *)
(* browser storage entry 'financialWeeks' they share.                      *)
(*                                                                         *)
(* Numbers are JavaScript numbers.  They are modelled as binary floating   *)
(* point values with a Prec-bit significand, rounded to nearest, ties to   *)
(* even, after every multiplication, division and addition, together with  *)
(* Infinity, -Infinity and NaN.  IEEE-754 binary64 has a 53-bit            *)
(* significand; the exponent range is not bounded here, so overflow to     *)
(* Infinity and underflow are not modelled.  Signed zero is not modelled.   *)
(***************************************************************************)
EXTENDS Integers, Sequences, FiniteSets, TLC

\* Significand bits of a modelled number.
Prec == 13

-----------------------------------------------------------------------------
(* JavaScript numbers *)

RECURSIVE Pow2(_)
Pow2(n) == IF n <= 0 THEN 1 ELSE 2 * Pow2(n - 1)

RECURSIVE BitLen(_)
BitLen(n) == IF n <= 0 THEN 0 ELSE 1 + BitLen(n \div 2)

Abs(n) == IF n < 0 THEN -n ELSE n

Sgn(n) == IF n < 0 THEN -1 ELSE IF n > 0 THEN 1 ELSE 0

\* A finite number m * 2^e, kept with m odd (or m = 0, e = 0) so that equal
\* values are equal records.
Zero == [k |-> "fin", m |-> 0, e |-> 0]

NaN == [k |-> "nan", m |-> 0, e |-> 0]

Inf(s) == [k |-> "inf", m |-> s, e |-> 0]

\* JSON null standing where a number is expected.
NullNum == [k |-> "null", m |-> 0, e |-> 0]

RECURSIVE Norm(_, _)
Norm(m, e) ==
  IF m = 0 THEN Zero
  ELSE IF m % 2 = 0 THEN Norm(m \div 2, e + 1)
  ELSE [k |-> "fin", m |-> m, e |-> e]

\* The number nearest to s * (n * 2^e + a little if sticky), ties to even.
RoundNearestEven(s, n, e, sticky) ==
  LET sh == BitLen(n) - Prec IN
  IF sh <= 0 THEN Norm(s * n, e)
  ELSE LET hi   == n \div Pow2(sh)
           rem  == n % Pow2(sh)
           half == Pow2(sh - 1)
           up   == rem > half \/ (rem = half /\ (sticky \/ hi % 2 = 1))
       IN Norm(s * (IF up THEN hi + 1 ELSE hi), e + sh)

\* A numeric literal with an integer value.
FromInt(n) == RoundNearestEven(Sgn(n), Abs(n), 0, FALSE)

\* ToNumber: null becomes 0 in arithmetic.
ToNumber(x) == IF x.k = "null" THEN Zero ELSE x

IsFinite(x) == x.k = "fin"

Neg(x) == IF x.k = "nan" THEN NaN ELSE [x EXCEPT !.m = -x.m]

\* a * b
Mul(x, y) ==
  LET a == ToNumber(x)
      b == ToNumber(y)
  IN IF a.k = "nan" \/ b.k = "nan" THEN NaN
     ELSE IF a.m = 0 \/ b.m = 0
       THEN (IF a.k = "inf" \/ b.k = "inf" THEN NaN ELSE Zero)
     ELSE IF a.k = "inf" \/ b.k = "inf" THEN Inf(Sgn(a.m) * Sgn(b.m))
     ELSE RoundNearestEven(Sgn(a.m) * Sgn(b.m), Abs(a.m) * Abs(b.m), a.e + b.e, FALSE)

\* a / b
Div(x, y) ==
  LET a == ToNumber(x)
      b == ToNumber(y)
  IN IF a.k = "nan" \/ b.k = "nan" THEN NaN
     ELSE IF a.k = "inf" THEN (IF b.k = "inf" THEN NaN
                               ELSE Inf(IF b.m < 0 THEN -a.m ELSE a.m))
     ELSE IF b.k = "inf" THEN Zero
     ELSE IF b.m = 0 THEN (IF a.m = 0 THEN NaN ELSE Inf(Sgn(a.m)))
     ELSE IF a.m = 0 THEN Zero
     ELSE LET sh  == Prec + 2 + BitLen(Abs(b.m)) - BitLen(Abs(a.m))
              num == Abs(a.m) * Pow2(sh)
          IN RoundNearestEven(Sgn(a.m) * Sgn(b.m), num \div Abs(b.m),
                              a.e - b.e - sh, num % Abs(b.m) # 0)

\* a + b
Add(x, y) ==
  LET a == ToNumber(x)
      b == ToNumber(y)
  IN IF a.k = "nan" \/ b.k = "nan" THEN NaN
     ELSE IF a.k = "inf" THEN (IF b.k = "inf" /\ b.m # a.m THEN NaN ELSE a)
     ELSE IF b.k = "inf" THEN b
     ELSE IF a.m = 0 THEN b
     ELSE IF b.m = 0 THEN a
     ELSE LET ta == a.e + BitLen(Abs(a.m))
              tb == b.e + BitLen(Abs(b.m))
              lo == IF a.e < b.e THEN a.e ELSE b.e
          IN IF ta - tb > Prec + 1 THEN a
             ELSE IF tb - ta > Prec + 1 THEN b
             ELSE LET sum == a.m * Pow2(a.e - lo) + b.m * Pow2(b.e - lo)
                  IN RoundNearestEven(Sgn(sum), Abs(sum), lo, FALSE)

\* a - b
Sub(x, y) == Add(x, Neg(ToNumber(y)))

\* a > 0, a < 0
IsPositive(x) == LET a == ToNumber(x) IN a.k \in {"fin", "inf"} /\ a.m > 0

IsNegative(x) == LET a == ToNumber(x) IN a.k \in {"fin", "inf"} /\ a.m < 0

\* The decimal literal n / 100, correctly rounded.
Decimal2(n) == Div(FromInt(n), FromInt(100))


-----------------------------------------------------------------------------
(* Data: ExchangeRates, AccountBalance, WeeklyData *)

VARIABLES
  storage,       \* localStorage entry 'financialWeeks': <<>> when absent, else <<list>>
  showDetailed,  \* PortfolioSummary: whether the detailed dashboard is mounted
  latestWeek,    \* PortfolioSummary: <<>> for null, else <<week>>
  summaryPrev,   \* PortfolioSummary's previousWeek: <<>> for null, else <<week>>
  currentWeek,   \* FinancialDashboard: the draft period
  previousWeek,  \* FinancialDashboard: <<>> for null, else <<week>>
  savedWeeks,    \* FinancialDashboard: the saved periods held in memory
  activeTab,     \* FinancialDashboard: "current" or "history"
  needsRender,   \* a state update is waiting for React to render the dashboard
  now,           \* the latest reading of Date.now()
  events,        \* user events handled so far
  lastOp,        \* the handler that ran last, with its arguments
  conv,          \* a single call of convertValue followed step by step
  calc           \* a single evaluation of the portfolio totals and the variation

vars == <<storage, showDetailed, latestWeek, summaryPrev, currentWeek, previousWeek,
          savedWeeks, activeTab, needsRender, now, events, lastOp, conv, calc>>

appVars == <<storage, showDetailed, latestWeek, summaryPrev, currentWeek, previousWeek,
             savedWeeks, activeTab, needsRender, now, events, lastOp>>

Currencies == {"USD", "BRL", "EUR"}

\* The field of an account that holds a currency.
Field(c) == IF c = "USD" THEN "usd" ELSE IF c = "BRL" THEN "brl" ELSE "eur"

DefaultRates ==
  [usdToBrl |-> Decimal2(555), eurToBrl |-> Decimal2(615), btcToUsd |-> FromInt(45000)]

\* The day new Date() falls on: days are numbered, day d is weekday d % 7, 0 Sunday.
Today == 3

-----------------------------------------------------------------------------
(* The conversion and aggregation functions *)

\* Variants of convertRun: a direct cross rate, no early return for equal
\* currencies, the two rates swapped on the way to BRL, a multiplication on the
\* way back from BRL.
convertRunCrossRate(value, fromCurrency, toCurrency, rates) ==
  IF fromCurrency = toCurrency THEN [value |-> value, ops |-> 0]
  ELSE LET rateOf(c) == IF c = "USD" THEN rates.usdToBrl
                        ELSE IF c = "EUR" THEN rates.eurToBrl ELSE FromInt(1)
       IN [value |-> Mul(value, Div(rateOf(fromCurrency), rateOf(toCurrency))), ops |-> 2]

convertRunNoShortcut(value, fromCurrency, toCurrency, rates) ==
  LET brl == IF fromCurrency = "USD" THEN [value |-> Mul(value, rates.usdToBrl), ops |-> 1]
             ELSE IF fromCurrency = "EUR" THEN [value |-> Mul(value, rates.eurToBrl), ops |-> 1]
             ELSE [value |-> value, ops |-> 0]
  IN IF toCurrency = "USD" THEN [value |-> Div(brl.value, rates.usdToBrl), ops |-> brl.ops + 1]
     ELSE IF toCurrency = "EUR" THEN [value |-> Div(brl.value, rates.eurToBrl), ops |-> brl.ops + 1]
     ELSE brl

convertRunSwappedRates(value, fromCurrency, toCurrency, rates) ==
  IF fromCurrency = toCurrency THEN [value |-> value, ops |-> 0]
  ELSE LET brl == IF fromCurrency = "USD" THEN [value |-> Mul(value, rates.eurToBrl), ops |-> 1]
                  ELSE IF fromCurrency = "EUR" THEN [value |-> Mul(value, rates.usdToBrl), ops |-> 1]
                  ELSE [value |-> value, ops |-> 0]
       IN IF toCurrency = "USD" THEN [value |-> Div(brl.value, rates.usdToBrl), ops |-> brl.ops + 1]
          ELSE IF toCurrency = "EUR" THEN [value |-> Div(brl.value, rates.eurToBrl), ops |-> brl.ops + 1]
          ELSE brl

convertRunMultiplyBack(value, fromCurrency, toCurrency, rates) ==
  IF fromCurrency = toCurrency THEN [value |-> value, ops |-> 0]
  ELSE LET brl == IF fromCurrency = "USD" THEN [value |-> Mul(value, rates.usdToBrl), ops |-> 1]
                  ELSE IF fromCurrency = "EUR" THEN [value |-> Mul(value, rates.eurToBrl), ops |-> 1]
                  ELSE [value |-> value, ops |-> 0]
       IN IF toCurrency = "USD" THEN [value |-> Mul(brl.value, rates.usdToBrl), ops |-> brl.ops + 1]
          ELSE IF toCurrency = "EUR" THEN [value |-> Mul(brl.value, rates.eurToBrl), ops |-> brl.ops + 1]
          ELSE brl

\* convertValue refusing to divide by a zero rate: the result is 0.
convertRunGuarded(value, fromCurrency, toCurrency, rates) ==
  IF fromCurrency = toCurrency THEN [value |-> value, ops |-> 0]
  ELSE LET brl == IF fromCurrency = "USD" THEN [value |-> Mul(value, rates.usdToBrl), ops |-> 1]
                  ELSE IF fromCurrency = "EUR" THEN [value |-> Mul(value, rates.eurToBrl), ops |-> 1]
                  ELSE [value |-> value, ops |-> 0]
           rate == IF toCurrency = "USD" THEN rates.usdToBrl ELSE rates.eurToBrl
       IN IF toCurrency = "BRL" THEN brl
          ELSE IF ToNumber(rate) = Zero THEN [value |-> Zero, ops |-> brl.ops]
          ELSE [value |-> Div(brl.value, rate), ops |-> brl.ops + 1]

\* convertValue, with the number of multiplications and divisions it performed.
convertRun(value, fromCurrency, toCurrency, rates) ==
  IF fromCurrency = toCurrency THEN [value |-> value, ops |-> 0]
  ELSE LET brl == IF fromCurrency = "USD" THEN [value |-> Mul(value, rates.usdToBrl), ops |-> 1]
                  ELSE IF fromCurrency = "EUR" THEN [value |-> Mul(value, rates.eurToBrl), ops |-> 1]
                  ELSE [value |-> value, ops |-> 0]
       IN IF toCurrency = "USD" THEN [value |-> Div(brl.value, rates.usdToBrl), ops |-> brl.ops + 1]
          ELSE IF toCurrency = "EUR" THEN [value |-> Div(brl.value, rates.eurToBrl), ops |-> brl.ops + 1]
          ELSE brl

convertValue(value, fromCurrency, toCurrency, rates) ==
  convertRun(value, fromCurrency, toCurrency, rates).value

\* accounts.reduce((sum, acc) => sum + acc[field], 0)
RECURSIVE reduceSum(_, _)
reduceSum(accounts, field) ==
  IF Len(accounts) = 0 THEN Zero
  ELSE Add(reduceSum(SubSeq(accounts, 1, Len(accounts) - 1), field),
           accounts[Len(accounts)][field])

calculateTotals(accounts) ==
  [totalUsd |-> reduceSum(accounts, "usd"),
   totalBrl |-> reduceSum(accounts, "brl"),
   totalEur |-> reduceSum(accounts, "eur")]

\* { ...prev, accounts: newAccounts, ...totals }
WithAccounts(prev, newAccounts) ==
  LET totals == calculateTotals(newAccounts)
  IN [prev EXCEPT !.accounts = newAccounts, !.totalUsd = totals.totalUsd,
                  !.totalBrl = totals.totalBrl, !.totalEur = totals.totalEur]

\* updatedAccount converting the edited EUR amount as if it were USD.
updatedAccountWrongSource(account, currency, value, rates) ==
  IF currency = "usd"
    THEN [account EXCEPT !.usd = value,
                         !.brl = convertValue(value, "USD", "BRL", rates),
                         !.eur = convertValue(value, "USD", "EUR", rates)]
  ELSE IF currency = "brl"
    THEN [account EXCEPT !.brl = value,
                         !.usd = convertValue(value, "BRL", "USD", rates),
                         !.eur = convertValue(value, "BRL", "EUR", rates)]
  ELSE [account EXCEPT !.eur = value,
                       !.brl = convertValue(value, "USD", "BRL", rates),
                       !.usd = convertValue(value, "USD", "USD", rates)]

\* The account object updateAccountValue builds for the account it edits.
updatedAccount(account, currency, value, rates) ==
  IF currency = "usd"
    THEN [account EXCEPT !.usd = value,
                         !.brl = convertValue(value, "USD", "BRL", rates),
                         !.eur = convertValue(value, "USD", "EUR", rates)]
  ELSE IF currency = "brl"
    THEN [account EXCEPT !.brl = value,
                         !.usd = convertValue(value, "BRL", "USD", rates),
                         !.eur = convertValue(value, "BRL", "EUR", rates)]
  ELSE [account EXCEPT !.eur = value,
                       !.brl = convertValue(value, "EUR", "BRL", rates),
                       !.usd = convertValue(value, "EUR", "USD", rates)]

\* The updater updateAccountValue hands to setCurrentWeek.
updateAccountValue(prev, accountId, currency, value) ==
  WithAccounts(prev,
    [i \in DOMAIN prev.accounts |->
       IF prev.accounts[i].id = accountId
         THEN updatedAccount(prev.accounts[i], currency, value, prev.rates)
         ELSE prev.accounts[i]])

\* updateExchangeRate re-deriving every account's USD and EUR balance from its
\* BRL balance under the new rates.
updateExchangeRateRelinking(prev, rateType, value) ==
  LET rates == [prev.rates EXCEPT ![rateType] = value]
      accounts == [i \in DOMAIN prev.accounts |->
                     [prev.accounts[i] EXCEPT
                        !.usd = Div(prev.accounts[i].brl, rates.usdToBrl),
                        !.eur = Div(prev.accounts[i].brl, rates.eurToBrl)]]
      totals == [totalUsd |-> reduceSum(accounts, "usd"),
                 totalEur |-> reduceSum(accounts, "eur")]
  IN [prev EXCEPT !.rates = rates, !.accounts = accounts,
                  !.totalUsd = totals.totalUsd, !.totalEur = totals.totalEur]

\* The updater updateExchangeRate hands to setCurrentWeek.
updateExchangeRate(prev, rateType, value) ==
  [prev EXCEPT !.rates = [prev.rates EXCEPT ![rateType] = value]]

\* `Nova Conta ${n}`
NovaConta(n) ==
  IF n = 1 THEN "Nova Conta 1" ELSE IF n = 2 THEN "Nova Conta 2"
  ELSE IF n = 3 THEN "Nova Conta 3" ELSE "Nova Conta 4+"

\* The account addNewAccount builds: id `account-${Date.now()}` is <<t>>.
newAccount(week, t) ==
  [id |-> <<t>>, name |-> NovaConta(Len(week.accounts) + 1),
   usd |-> Zero, brl |-> Zero, eur |-> Zero]

\* The updater addNewAccount hands to setCurrentWeek.
addNewAccount(prev, account) ==
  [prev EXCEPT !.accounts = Append(prev.accounts, account)]

\* prev.accounts.filter(acc => acc.id !== accountId)
RECURSIVE filterOut(_, _)
filterOut(accounts, accountId) ==
  IF Len(accounts) = 0 THEN <<>>
  ELSE LET rest == filterOut(Tail(accounts), accountId)
       IN IF Head(accounts).id # accountId THEN <<Head(accounts)>> \o rest ELSE rest

\* removeAccount leaving the totals as they were.
removeAccountStaleTotals(prev, accountId) ==
  [prev EXCEPT !.accounts = filterOut(prev.accounts, accountId)]

\* removeAccount totalling the accounts as they were before the filter.
removeAccountTotalsBeforeFilter(prev, accountId) ==
  [WithAccounts(prev, prev.accounts) EXCEPT !.accounts = filterOut(prev.accounts, accountId)]

\* The updater removeAccount hands to setCurrentWeek.
removeAccount(prev, accountId) ==
  WithAccounts(prev, filterOut(prev.accounts, accountId))

\* The updater updateAccountName hands to setCurrentWeek.
updateAccountName(prev, accountId, newName) ==
  [prev EXCEPT !.accounts =
     [i \in DOMAIN prev.accounts |->
        IF prev.accounts[i].id = accountId
          THEN [prev.accounts[i] EXCEPT !.name = newName]
          ELSE prev.accounts[i]]]

\* accounts.findIndex(acc => acc.id === id), 1-based; 0 when there is none.
findIndex(accounts, id) ==
  IF \E i \in DOMAIN accounts : accounts[i].id = id
    THEN CHOOSE i \in DOMAIN accounts :
           /\ accounts[i].id = id
           /\ \A j \in DOMAIN accounts : accounts[j].id = id => i <= j
    ELSE 0

\* arrayMove writing the dragged element over the one it is dropped on.
arrayMoveOverwriting(array, from, to) == [array EXCEPT ![to] = array[from]]

\* arrayMove of @dnd-kit/sortable: the element at from is taken out and put at to.
arrayMove(array, from, to) ==
  LET without == SubSeq(array, 1, from - 1) \o SubSeq(array, from + 1, Len(array))
  IN SubSeq(without, 1, to - 1) \o <<array[from]>> \o SubSeq(without, to, Len(without))

\* The updater handleDragEnd hands to setCurrentWeek.
handleDragEnd(prev, activeId, overId) ==
  WithAccounts(prev,
    arrayMove(prev.accounts, findIndex(prev.accounts, activeId),
              findIndex(prev.accounts, overId)))

\* The week saveCurrentWeek appends: id `week-${Date.now()}` is <<t>>.
weekToSave(week, t) == [week EXCEPT !.id = <<t>>]

\* saveCurrentWeek overwriting the snapshot saved last when it has the draft's date.
updatedWeeksUpsert(saved, week, t) ==
  IF Len(saved) > 0 /\ saved[Len(saved)].date = week.date
    THEN [saved EXCEPT ![Len(saved)] = weekToSave(week, t)]
    ELSE Append(saved, weekToSave(week, t))

\* saveCurrentWeek putting the new snapshot first.
updatedWeeksPrepend(saved, week, t) == <<weekToSave(week, t)>> \o saved

\* [...savedWeeks, weekToSave]
updatedWeeks(saved, week, t) == Append(saved, weekToSave(week, t))

\* nextMonday.getDate() + (1 + 7 - nextMonday.getDay()) % 7
nextMonday(day) == day + ((1 + 7 - (day % 7)) % 7)

\* The draft createNewWeek sets: id `account-${Date.now()}-${account.id}` is <<t>> \o id.
createNewWeek(week, t, day) ==
  [id |-> <<>>, date |-> nextMonday(day), rates |-> week.rates,
   accounts |-> [i \in DOMAIN week.accounts |->
                   [week.accounts[i] EXCEPT !.id = <<t>> \o week.accounts[i].id,
                                            !.usd = Zero, !.brl = Zero, !.eur = Zero]],
   totalUsd |-> Zero, totalBrl |-> Zero, totalEur |-> Zero]

\* The draft a mounted dashboard starts with, and clearAllData resets to.
InitialWeek(day) ==
  [id |-> <<>>, date |-> day, rates |-> DefaultRates, accounts |-> <<>>,
   totalUsd |-> Zero, totalBrl |-> Zero, totalEur |-> Zero]

\* savedWeeks.reverse(): reverses the array in place and returns it.
RECURSIVE reverse(_)
reverse(array) ==
  IF Len(array) = 0 THEN <<>>
  ELSE Append(reverse(Tail(array)), Head(array))

\* JSON.stringify of a number: NaN and the infinities are written as null.
JsonNumber(x) == IF IsFinite(x) \/ x.k = "null" THEN x ELSE NullNum

JsonAccount(a) ==
  [a EXCEPT !.usd = JsonNumber(a.usd), !.brl = JsonNumber(a.brl), !.eur = JsonNumber(a.eur)]

JsonWeek(w) ==
  [w EXCEPT !.rates = [usdToBrl |-> JsonNumber(w.rates.usdToBrl),
                       eurToBrl |-> JsonNumber(w.rates.eurToBrl),
                       btcToUsd |-> JsonNumber(w.rates.btcToUsd)],
            !.accounts = [i \in DOMAIN w.accounts |-> JsonAccount(w.accounts[i])],
            !.totalUsd = JsonNumber(w.totalUsd),
            !.totalBrl = JsonNumber(w.totalBrl),
            !.totalEur = JsonNumber(w.totalEur)]

\* JSON.parse(JSON.stringify(weeks))
JsonWeeks(weeks) == [i \in DOMAIN weeks |-> JsonWeek(weeks[i])]

\* week.totalBrl + (week.totalUsd * week.rates.usdToBrl) + (week.totalEur * week.rates.eurToBrl)
getTotalPortfolioInBrl(week) ==
  Add(Add(week.totalBrl, Mul(week.totalUsd, week.rates.usdToBrl)),
      Mul(week.totalEur, week.rates.eurToBrl))

\* convertToUSD bringing EUR to USD by the cross rate eurToBrl / usdToBrl.
convertToUSDCrossRate(usd, brl, eur, rates) ==
  Add(Add(usd, Div(brl, rates.usdToBrl)),
      Mul(eur, Div(rates.eurToBrl, rates.usdToBrl)))

\* usd + (brl / rates.usdToBrl) + (eur * rates.eurToBrl / rates.usdToBrl)
convertToUSD(usd, brl, eur, rates) ==
  Add(Add(usd, Div(brl, rates.usdToBrl)),
      Div(Mul(eur, rates.eurToBrl), rates.usdToBrl))

\* convertToBRL bringing EUR to BRL by the USD rate.
convertToBRLOneRate(usd, brl, eur, rates) ==
  Add(Add(brl, Mul(usd, rates.usdToBrl)), Mul(eur, rates.usdToBrl))

\* brl + (usd * rates.usdToBrl) + (eur * rates.eurToBrl)
convertToBRL(usd, brl, eur, rates) ==
  Add(Add(brl, Mul(usd, rates.usdToBrl)), Mul(eur, rates.eurToBrl))

\* getPreviousTotalInBrl: 0 when there is no previous week.
getPreviousTotalInBrl(prev) ==
  IF prev = <<>> THEN Zero ELSE getTotalPortfolioInBrl(prev[1])

\* previousTotal > 0 ? ((currentTotal - previousTotal) / previousTotal) * 100 : 0,
\* with the number of divisions performed.
variationRun(currentTotal, previousTotal) ==
  IF IsPositive(previousTotal)
    THEN [value |-> Mul(Div(Sub(currentTotal, previousTotal), previousTotal), FromInt(100)),
          divisions |-> 1]
    ELSE [value |-> Zero, divisions |-> 0]

\* x >= 0
IsAtLeastZero(x) == LET a == ToNumber(x) IN a.k \in {"fin", "inf"} /\ a.m >= 0

\* previousWeek && (variation >= 0 ? <TrendingUp/> : <TrendingDown/>)
trendIndicator(prev, variation) ==
  IF prev = <<>> THEN "none"
  ELSE IF IsAtLeastZero(variation) THEN "up" ELSE "down"

\* The value '' of the date input once it is cleared.
EmptyDate == -1

\* new Date(date).getTime(): NaN for a text that is not a date.
getTime(date) == IF date = EmptyDate THEN NaN ELSE FromInt(date)

\* The comparator of the summary's sort, new Date(b.date).getTime() -
\* new Date(a.date).getTime(), as Array.prototype.sort reads it: NaN counts as 0.
SortCompare(a, b) ==
  LET v == Sub(getTime(b.date), getTime(a.date))
  IN IF v.k = "nan" THEN 0 ELSE Sgn(v.m)

\* x put into a sorted list after every element that does not sort after it.
RECURSIVE InsertSorted(_, _)
InsertSorted(sorted, x) ==
  IF Len(sorted) = 0 THEN <<x>>
  ELSE IF SortCompare(sorted[Len(sorted)], x) > 0
    THEN Append(InsertSorted(SubSeq(sorted, 1, Len(sorted) - 1), x), sorted[Len(sorted)])
    ELSE Append(sorted, x)

\* A stable sort by the comparator.
RECURSIVE StableSort(_)
StableSort(weeks) ==
  IF Len(weeks) = 0 THEN <<>>
  ELSE InsertSorted(StableSort(SubSeq(weeks, 1, Len(weeks) - 1)), weeks[Len(weeks)])

\* The comparator is a consistent one for the list: being equal under it is
\* transitive.
ConsistentComparator(weeks) ==
  \A i \in DOMAIN weeks, j \in DOMAIN weeks, k \in DOMAIN weeks :
    (SortCompare(weeks[i], weeks[j]) = 0 /\ SortCompare(weeks[j], weeks[k]) = 0) =>
      SortCompare(weeks[i], weeks[k]) = 0

\* weeks.sort(comparator): the stable sort for a consistent comparator; for an
\* inconsistent one the order is left to the implementation.
SortOutcomes(weeks) ==
  IF ConsistentComparator(weeks) THEN {StableSort(weeks)}
  ELSE { [i \in DOMAIN weeks |-> weeks[p[i]]] : p \in Permutations(DOMAIN weeks) }

weekInUSD(week) == convertToUSD(week.totalUsd, week.totalBrl, week.totalEur, week.rates)

weekInBRL(week) == convertToBRL(week.totalUsd, week.totalBrl, week.totalEur, week.rates)

\* usdEvolutionData / brlEvolutionData: the total of each saved period in the
\* chart's currency and its variation against the period before it in the list.
EvolutionData(weeks, currency) ==
  [index \in DOMAIN weeks |->
     LET total(week) == IF currency = "USD" THEN weekInUSD(week) ELSE weekInBRL(week)
         totalValue == total(weeks[index])
         prevValue == IF index > 1 THEN total(weeks[index - 1]) ELSE totalValue
     IN [value |-> totalValue, variation |-> variationRun(totalValue, prevValue).value]]

-----------------------------------------------------------------------------
(* A single call of convertValue, its two-step equivalent and its inverse *)

ConvAmounts == {Zero, FromInt(3), FromInt(7), FromInt(100), FromInt(200), FromInt(500),
                FromInt(-7)}

ConvRates ==
  { [usdToBrl |-> u, eurToBrl |-> e, btcToUsd |-> FromInt(45000)] :
      u \in {Decimal2(555), Decimal2(550), FromInt(5), Zero, FromInt(-2)},
      e \in {Decimal2(615), FromInt(6), Zero} }

ConvIdle ==
  [pc |-> "off", x |-> Zero, from |-> "BRL", to |-> "BRL", rates |-> DefaultRates,
   direct |-> Zero, ops |-> 0, pivot |-> Zero, twoStep |-> Zero, back |-> Zero]

\* direct := convertValue(x, from, to, rates)
ConvDirect ==
  /\ conv.pc = "start"
  /\ LET r == convertRun(conv.x, conv.from, conv.to, conv.rates)
     IN conv' = [conv EXCEPT !.pc = "direct", !.direct = r.value, !.ops = r.ops]
  /\ UNCHANGED <<appVars, calc>>

\* pivot := convertValue(x, from, 'BRL', rates)
ConvPivot ==
  /\ conv.pc = "direct"
  /\ conv' = [conv EXCEPT !.pc = "pivot",
                          !.pivot = convertValue(conv.x, conv.from, "BRL", conv.rates)]
  /\ UNCHANGED <<appVars, calc>>

\* twoStep := convertValue(pivot, 'BRL', to, rates)
ConvFromPivot ==
  /\ conv.pc = "pivot"
  /\ conv' = [conv EXCEPT !.pc = "twoStep",
                          !.twoStep = convertValue(conv.pivot, "BRL", conv.to, conv.rates)]
  /\ UNCHANGED <<appVars, calc>>

\* back := convertValue(direct, to, from, rates)
ConvBack ==
  /\ conv.pc = "twoStep"
  /\ conv' = [conv EXCEPT !.pc = "done",
                          !.back = convertValue(conv.direct, conv.to, conv.from, conv.rates)]
  /\ UNCHANGED <<appVars, calc>>


-----------------------------------------------------------------------------
(* A single evaluation of the portfolio totals, of the variation shown by     *)
(* the summary, and of a drag reorder                                         *)

\* Totals a stored period may hold; a total that was not finite when the period
\* was saved is read back as null.
TotalAmounts == {Zero, FromInt(7), FromInt(200), FromInt(1000), FromInt(-7), NullNum}

\* Portfolio totals of the two periods the summary compares.
ChangeAmounts == {Zero, FromInt(3), FromInt(7), FromInt(90), FromInt(100), FromInt(110),
                  FromInt(200), FromInt(-100)}

\* Accounts a draft may hold at most when it is reordered, and drags in a row.
MaxRows == 3

MaxDrags == 2

\* A period with the given totals and rates.
PeriodOf(usd, brl, eur, rates) ==
  [InitialWeek(Today) EXCEPT !.rates = rates, !.totalUsd = usd, !.totalBrl = brl,
                             !.totalEur = eur]

TotalOf(week, currency) ==
  IF currency = "USD" THEN week.totalUsd
  ELSE IF currency = "BRL" THEN week.totalBrl ELSE week.totalEur

\* The balances an account holds after one edit under the default rates.
EditedAccounts ==
  { updatedAccount([id |-> <<>>, name |-> "A", usd |-> Zero, brl |-> Zero, eur |-> Zero],
                   c, v, DefaultRates) :
      c \in {"usd", "brl", "eur"}, v \in {FromInt(200), FromInt(7)} }

\* Drafts of n accounts with ids <<1>> .. <<n>>, totals as calculateTotals leaves them.
DraftsOf(n) ==
  { WithAccounts(InitialWeek(Today), [i \in 1..n |-> [rows[i] EXCEPT !.id = <<i>>]]) :
      rows \in [1..n -> EditedAccounts] }

CalcIdle ==
  [pc |-> "off", week |-> InitialWeek(Today), prev |-> <<>>,
   inUsd |-> Zero, inBrl |-> Zero, summary |-> Zero,
   from |-> "BRL", to |-> "BRL", moved |-> InitialWeek(Today),
   movedInUsd |-> Zero, movedInBrl |-> Zero,
   currentTotal |-> Zero, previousTotal |-> Zero, variation |-> Zero,
   divisions |-> 0, trend |-> "none",
   draft |-> InitialWeek(Today), reordered |-> InitialWeek(Today), drags |-> 0,
   stored |-> <<>>, latest |-> <<>>, second |-> <<>>,
   usdEvolution |-> <<>>, brlEvolution |-> <<>>]

\* inUsd := convertToUSD(week.totalUsd, week.totalBrl, week.totalEur, week.rates)
TotalInUSD ==
  /\ calc.pc = "week"
  /\ calc' = [calc EXCEPT !.pc = "usd",
                          !.inUsd = convertToUSD(calc.week.totalUsd, calc.week.totalBrl,
                                                 calc.week.totalEur, calc.week.rates)]
  /\ UNCHANGED <<appVars, conv>>

\* inBrl := convertToBRL(...); summary := getTotalPortfolioInBrl()
TotalInBRL ==
  /\ calc.pc = "usd"
  /\ calc' = [calc EXCEPT !.pc = "brl",
                          !.inBrl = convertToBRL(calc.week.totalUsd, calc.week.totalBrl,
                                                 calc.week.totalEur, calc.week.rates),
                          !.summary = getTotalPortfolioInBrl(calc.week)]
  /\ UNCHANGED <<appVars, conv>>

\* The same money recorded in currency d instead of c: the period's only total,
\* held in c, is converted to d by convertValue.
Rerecord(c, d) ==
  /\ calc.pc = "brl"
  /\ c # d
  /\ \A other \in Currencies \ {c} : TotalOf(calc.week, other) = Zero
  /\ LET v == convertValue(TotalOf(calc.week, c), c, d, calc.week.rates)
     IN calc' = [calc EXCEPT !.pc = "moved", !.from = c, !.to = d,
                   !.moved = PeriodOf(IF d = "USD" THEN v ELSE Zero,
                                      IF d = "BRL" THEN v ELSE Zero,
                                      IF d = "EUR" THEN v ELSE Zero, calc.week.rates)]
  /\ UNCHANGED <<appVars, conv>>

\* The totals of the re-recorded period in USD and in BRL.
MovedTotals ==
  /\ calc.pc = "moved"
  /\ calc' = [calc EXCEPT !.pc = "done",
                !.movedInUsd = convertToUSD(calc.moved.totalUsd, calc.moved.totalBrl,
                                            calc.moved.totalEur, calc.moved.rates),
                !.movedInBrl = convertToBRL(calc.moved.totalUsd, calc.moved.totalBrl,
                                            calc.moved.totalEur, calc.moved.rates)]
  /\ UNCHANGED <<appVars, conv>>

\* currentTotal := getTotalPortfolioInBrl(); previousTotal := getPreviousTotalInBrl()
SummaryTotals ==
  /\ calc.pc = "weeks"
  /\ calc' = [calc EXCEPT !.pc = "totals",
                          !.currentTotal = getTotalPortfolioInBrl(calc.week),
                          !.previousTotal = getPreviousTotalInBrl(calc.prev)]
  /\ UNCHANGED <<appVars, conv>>

\* variation := previousTotal > 0 ? ... : 0
Variation ==
  /\ calc.pc = "totals"
  /\ LET r == variationRun(calc.currentTotal, calc.previousTotal)
     IN calc' = [calc EXCEPT !.pc = "variation", !.variation = r.value,
                             !.divisions = r.divisions]
  /\ UNCHANGED <<appVars, conv>>

\* The trend icon next to the variation.
Trend ==
  /\ calc.pc = "variation"
  /\ calc' = [calc EXCEPT !.pc = "trend",
                          !.trend = trendIndicator(calc.prev, calc.variation)]
  /\ UNCHANGED <<appVars, conv>>

\* Stored collections the summary may find: periods saved in any order of their
\* dates, the date field left empty in some.
StoredDates == {EmptyDate, Today, Today + 7}

MaxStored == 3

StoredLists ==
  UNION { { [i \in 1..n |-> [PeriodOf(Zero, FromInt(100), Zero, DefaultRates)
                               EXCEPT !.id = <<i>>, !.date = dates[i]]] :
              dates \in [1..n -> StoredDates] } : n \in 0..MaxStored }

\* Periods of the collection handed to the analytics dashboard.
SeriesPeriods ==
  { PeriodOf(u, b, e, r) :
      u \in {Zero, FromInt(7)}, b \in {Zero, FromInt(1000), FromInt(-7)},
      e \in {Zero, FromInt(7)},
      r \in {DefaultRates, [DefaultRates EXCEPT !.usdToBrl = Zero]} }

MaxSeries == 2

SeriesLists == UNION { [1..n -> SeriesPeriods] : n \in 1..MaxSeries }

\* The mount effect of the summary: the stored collection is parsed and sorted,
\* latestWeek is its first element and previousWeek its second, if it has them.
LoadSummary(sorted) ==
  /\ calc.pc = "stored"
  /\ calc' = [calc EXCEPT !.pc = "loaded",
                !.latest = IF Len(sorted) > 0 THEN <<sorted[1]>> ELSE <<>>,
                !.second = IF Len(sorted) > 1 THEN <<sorted[2]>> ELSE <<>>]
  /\ UNCHANGED <<appVars, conv>>

\* The analytics dashboard computes its two series over the saved collection.
Evolution ==
  /\ calc.pc = "series"
  /\ calc' = [calc EXCEPT !.pc = "charted",
                !.usdEvolution = EvolutionData(calc.stored, "USD"),
                !.brlEvolution = EvolutionData(calc.stored, "BRL")]
  /\ UNCHANGED <<appVars, conv>>

\* A row of the draft is dragged and dropped on a row.
Reorder(activeId, overId) ==
  /\ calc.pc = "draft"
  /\ calc.drags < MaxDrags
  /\ calc' = [calc EXCEPT !.drags = @ + 1,
                !.reordered = IF activeId # overId
                                THEN handleDragEnd(calc.reordered, activeId, overId)
                                ELSE calc.reordered]
  /\ UNCHANGED <<appVars, conv>>


-----------------------------------------------------------------------------
(* The application: PortfolioSummary, FinancialDashboard and browser storage *)

\* Accounts a draft may hold, periods that may be saved, clock readings after
\* the first, and user events handled in one run.
MaxAccounts == 2

MaxSaved == 3

MaxClock == 1

MaxEvents == 5

\* What the user types into a balance field (pt-BR notation), a rate field, the
\* name field and the date field.
BalanceEntries == {"", "200", "abc"}

RateEntries == {"", "5.5"}

NameEntries == {"A"}

DateEntries == {Today + 7}

RateTypes == {"usdToBrl", "eurToBrl", "btcToUsd"}

\* e.target.value.replace(/\./g, '').replace(',', '.')
cleanValue(text) ==
  CASE text = "1.100" -> "1100"
    [] text = "5,5"   -> "5.5"
    [] OTHER          -> text

\* parseFloat on the texts above: NaN for a text that does not start with a number.
parseFloat(text) ==
  CASE text = "7"    -> FromInt(7)
    [] text = "200"  -> FromInt(200)
    [] text = "1100" -> FromInt(1100)
    [] text = "5.5"  -> Decimal2(550)
    [] OTHER         -> NaN

\* x || 0: NaN and 0 are falsy.
OrZero(x) == IF x.k = "nan" \/ (x.k = "fin" /\ x.m = 0) THEN Zero ELSE x

Op(name, id, cur, val, txt) ==
  [op |-> name, id |-> id, cur |-> cur, val |-> val, txt |-> txt]

NoOp == Op("none", <<>>, "", Zero, "")

AppInit ==
  /\ storage = <<>>
  /\ showDetailed = FALSE
  /\ latestWeek = <<>>
  /\ summaryPrev = <<>>
  /\ currentWeek = InitialWeek(Today)
  /\ previousWeek = <<>>
  /\ savedWeeks = <<>>
  /\ activeTab = "current"
  /\ needsRender = FALSE
  /\ now = 0
  /\ events = 0
  /\ lastOp = NoOp

\* A user event reaches a handler of the dashboard once React has rendered the
\* state the previous one left.
CanHandle == showDetailed /\ ~needsRender /\ events < MaxEvents

Handled(op) ==
  /\ events' = events + 1
  /\ lastOp' = op
  /\ needsRender' = TRUE
  /\ UNCHANGED <<showDetailed, latestWeek, summaryPrev, conv, calc>>

\* The readings Date.now() may give at the next event: time does not run backwards.
ClockReadings == now .. MaxClock

\* Manage Portfolio: the dashboard mounts with its initial state and its mount
\* effect loads the saved periods from storage.
ManagePortfolio ==
  /\ ~showDetailed
  /\ events < MaxEvents
  /\ showDetailed' = TRUE
  /\ currentWeek' = InitialWeek(Today)
  /\ activeTab' = "current"
  /\ IF storage # <<>>
       THEN LET weeks == storage[1]
            IN /\ savedWeeks' = weeks
               /\ previousWeek' = IF Len(weeks) > 0 THEN <<weeks[Len(weeks)]>> ELSE <<>>
       ELSE savedWeeks' = <<>> /\ previousWeek' = <<>>
  /\ needsRender' = (storage # <<>>)
  /\ events' = events + 1
  /\ lastOp' = Op("mount", <<>>, "", Zero, "")
  /\ UNCHANGED <<storage, latestWeek, summaryPrev, now, conv, calc>>

\* Back to Summary: the dashboard unmounts and its state is dropped.
Back ==
  /\ CanHandle
  /\ showDetailed' = FALSE
  /\ currentWeek' = InitialWeek(Today)
  /\ previousWeek' = <<>>
  /\ savedWeeks' = <<>>
  /\ activeTab' = "current"
  /\ needsRender' = FALSE
  /\ events' = events + 1
  /\ lastOp' = Op("onBack", <<>>, "", Zero, "")
  /\ UNCHANGED <<storage, latestWeek, summaryPrev, now, conv, calc>>

\* A render of the dashboard: the History tab's markup is built on every render
\* and calls savedWeeks.reverse() when the collection is not empty.  React
\* renders after every state update and whenever a toast appears or goes.
Render ==
  /\ showDetailed
  /\ savedWeeks' = IF Len(savedWeeks) = 0 THEN savedWeeks ELSE reverse(savedWeeks)
  /\ needsRender' = FALSE
  /\ UNCHANGED <<storage, showDetailed, latestWeek, summaryPrev, currentWeek,
                 previousWeek, activeTab, now, events, lastOp, conv, calc>>

\* onChange of a balance input of the row at index i.
BalanceChange(i, currency, text) ==
  /\ CanHandle
  /\ LET id == currentWeek.accounts[i].id
         numValue == parseFloat(cleanValue(text))
     IN IF text = ""
          THEN /\ currentWeek' = updateAccountValue(currentWeek, id, currency, Zero)
               /\ Handled(Op("updateAccountValue", id, currency, Zero, text))
        ELSE IF numValue.k # "nan"
          THEN /\ currentWeek' = updateAccountValue(currentWeek, id, currency, numValue)
               /\ Handled(Op("updateAccountValue", id, currency, numValue, text))
        ELSE /\ currentWeek' = currentWeek
             /\ Handled(Op("ignoredBalanceInput", id, currency, numValue, text))
  /\ UNCHANGED <<now, storage, previousWeek, savedWeeks, activeTab>>

\* onChange of a rate input.
RateChange(rateType, text) ==
  /\ CanHandle
  /\ LET value == OrZero(parseFloat(text))
     IN /\ currentWeek' = updateExchangeRate(currentWeek, rateType, value)
        /\ Handled(Op("updateExchangeRate", <<>>, rateType, value, text))
  /\ UNCHANGED <<now, storage, previousWeek, savedWeeks, activeTab>>

\* onChange of the date input.
DateChange(day) ==
  /\ CanHandle
  /\ currentWeek' = [currentWeek EXCEPT !.date = day]
  /\ Handled(Op("setDate", <<>>, "", Zero, ""))
  /\ UNCHANGED <<now, storage, previousWeek, savedWeeks, activeTab>>

\* Add Account.
AddAccount(t) ==
  /\ CanHandle
  /\ Len(currentWeek.accounts) < MaxAccounts
  /\ now' = t
  /\ currentWeek' = addNewAccount(currentWeek, newAccount(currentWeek, t))
  /\ Handled(Op("addNewAccount", <<t>>, "", Zero, ""))
  /\ UNCHANGED <<storage, previousWeek, savedWeeks, activeTab>>

\* The remove button of the row at index i.
RemoveAccount(i) ==
  /\ CanHandle
  /\ currentWeek' = removeAccount(currentWeek, currentWeek.accounts[i].id)
  /\ Handled(Op("removeAccount", currentWeek.accounts[i].id, "", Zero, ""))
  /\ UNCHANGED <<now, storage, previousWeek, savedWeeks, activeTab>>

\* onChange of the name input of the row at index i.
NameChange(i, text) ==
  /\ CanHandle
  /\ currentWeek' = updateAccountName(currentWeek, currentWeek.accounts[i].id, text)
  /\ Handled(Op("updateAccountName", currentWeek.accounts[i].id, "", Zero, text))
  /\ UNCHANGED <<now, storage, previousWeek, savedWeeks, activeTab>>

\* A row is dragged and dropped on a row.
DragEnd(activeId, overId) ==
  /\ CanHandle
  /\ currentWeek' = IF activeId # overId
                      THEN handleDragEnd(currentWeek, activeId, overId)
                      ELSE currentWeek
  /\ Handled(Op("handleDragEnd", activeId, "", Zero, ""))
  /\ UNCHANGED <<now, storage, previousWeek, savedWeeks, activeTab>>

\* Save Week.
SaveWeek(t) ==
  /\ CanHandle
  /\ Len(savedWeeks) < MaxSaved
  /\ now' = t
  /\ savedWeeks' = updatedWeeks(savedWeeks, currentWeek, t)
  /\ storage' = <<JsonWeeks(savedWeeks')>>
  /\ Handled(Op("saveCurrentWeek", <<t>>, "", Zero, ""))
  /\ UNCHANGED <<currentWeek, previousWeek, activeTab>>

\* createNewWeek keeping the previous period it had.
NewWeekKeepingPrevious(t) ==
  /\ CanHandle
  /\ now' = t
  /\ previousWeek' = previousWeek
  /\ currentWeek' = createNewWeek(currentWeek, t, Today)
  /\ activeTab' = "current"
  /\ Handled(Op("createNewWeek", <<t>>, "", Zero, ""))
  /\ UNCHANGED <<storage, savedWeeks>>

\* New Week.
NewWeek(t) ==
  /\ CanHandle
  /\ now' = t
  /\ previousWeek' = <<currentWeek>>
  /\ currentWeek' = createNewWeek(currentWeek, t, Today)
  /\ activeTab' = "current"
  /\ Handled(Op("createNewWeek", <<t>>, "", Zero, ""))
  /\ UNCHANGED <<storage, savedWeeks>>

\* clearAllData leaving the list held in memory as it is.
ClearAllStorageOnly ==
  /\ CanHandle
  /\ storage' = <<>>
  /\ savedWeeks' = savedWeeks
  /\ previousWeek' = <<>>
  /\ currentWeek' = InitialWeek(Today)
  /\ activeTab' = "current"
  /\ now' = now
  /\ Handled(Op("clearAllData", <<>>, "", Zero, ""))

\* Settings, Clear All Data.
ClearAll ==
  /\ CanHandle
  /\ storage' = <<>>
  /\ savedWeeks' = <<>>
  /\ previousWeek' = <<>>
  /\ currentWeek' = InitialWeek(Today)
  /\ activeTab' = "current"
  /\ now' = now
  /\ Handled(Op("clearAllData", <<>>, "", Zero, ""))

\* A tab trigger.
SetTab(tab) ==
  /\ CanHandle
  /\ activeTab' = tab
  /\ Handled(Op("setActiveTab", <<>>, "", Zero, tab))
  /\ UNCHANGED <<now, storage, currentWeek, previousWeek, savedWeeks>>

Rows == DOMAIN currentWeek.accounts

RowIds == {currentWeek.accounts[i].id : i \in Rows}

Init == AppInit /\ conv = ConvIdle /\ calc = CalcIdle

Next ==
  \/ ManagePortfolio
  \/ Back
  \/ Render
  \/ \E i \in Rows, c \in {"usd", "brl", "eur"}, text \in BalanceEntries :
       BalanceChange(i, c, text)
  \/ \E r \in RateTypes, text \in RateEntries : RateChange(r, text)
  \/ \E d \in DateEntries : DateChange(d)
  \/ \E t \in ClockReadings : AddAccount(t)
  \/ \E i \in Rows : RemoveAccount(i)
  \/ \E i \in Rows, text \in NameEntries : NameChange(i, text)
  \/ \E a \in RowIds, o \in RowIds : DragEnd(a, o)
  \/ \E t \in ClockReadings : SaveWeek(t)
  \/ \E t \in ClockReadings : NewWeek(t)
  \/ ClearAll
  \/ \E tab \in {"current", "history"} : SetTab(tab)

Spec == Init /\ [][Next]_vars

InitConv ==
  /\ AppInit
  /\ conv \in { [ConvIdle EXCEPT !.pc = "start", !.x = x, !.from = f, !.to = t, !.rates = r] :
                  x \in ConvAmounts, f \in Currencies, t \in Currencies, r \in ConvRates }
  /\ calc = CalcIdle

NextConv == ConvDirect \/ ConvPivot \/ ConvFromPivot \/ ConvBack

SpecConv == InitConv /\ [][NextConv]_vars

InitCalc ==
  /\ AppInit
  /\ conv = ConvIdle
  /\ \/ calc \in { [CalcIdle EXCEPT !.pc = "week", !.week = PeriodOf(u, b, e, r)] :
                     u \in TotalAmounts, b \in TotalAmounts, e \in TotalAmounts,
                     r \in ConvRates }
     \/ calc \in { [CalcIdle EXCEPT !.pc = "weeks",
                                    !.week = PeriodOf(Zero, c, Zero, DefaultRates),
                                    !.prev = p] :
                     c \in ChangeAmounts,
                     p \in {<<>>} \cup { <<PeriodOf(Zero, b, Zero, DefaultRates)>> :
                                           b \in ChangeAmounts } }
     \/ calc \in { [CalcIdle EXCEPT !.pc = "draft", !.draft = d, !.reordered = d] :
                     d \in UNION { DraftsOf(n) : n \in 0..MaxRows } }
     \/ calc \in { [CalcIdle EXCEPT !.pc = "stored", !.stored = w] : w \in StoredLists }
     \/ calc \in { [CalcIdle EXCEPT !.pc = "series", !.stored = w] : w \in SeriesLists }

NextCalc ==
  \/ TotalInUSD
  \/ TotalInBRL
  \/ \E c \in Currencies, d \in Currencies : Rerecord(c, d)
  \/ MovedTotals
  \/ SummaryTotals
  \/ Variation
  \/ Trend
  \/ \E sorted \in SortOutcomes(calc.stored) : LoadSummary(sorted)
  \/ Evolution
  \/ \E a \in {calc.reordered.accounts[i].id : i \in DOMAIN calc.reordered.accounts},
        o \in {calc.reordered.accounts[i].id : i \in DOMAIN calc.reordered.accounts} :
       Reorder(a, o)

SpecCalc == InitCalc /\ [][NextCalc]_vars


-----------------------------------------------------------------------------
(* Properties *)

\* The sum of a field over a list of accounts, added up in list order from 0.
RECURSIVE FieldSum(_, _, _)
FieldSum(accounts, field, n) ==
  IF n = 0 THEN Zero ELSE Add(FieldSum(accounts, field, n - 1), accounts[n][field])

\* C1: in every reachable state the draft's totalUsd, totalBrl and totalEur are
\* the sums of the usd, brl and eur fields over the draft's current account list.
C1_TotalsAreSums ==
  LET accounts == currentWeek.accounts
  IN /\ currentWeek.totalUsd = FieldSum(accounts, "usd", Len(accounts))
     /\ currentWeek.totalBrl = FieldSum(accounts, "brl", Len(accounts))
     /\ currentWeek.totalEur = FieldSum(accounts, "eur", Len(accounts))

\* An account was removed from a draft of two and the one left holds money.
C1_Witness ==
  /\ lastOp.op = "removeAccount"
  /\ Len(currentWeek.accounts) = 1
  /\ IsPositive(currentWeek.totalUsd)
  /\ IsPositive(currentWeek.totalEur)

Upper(currency) == IF currency = "usd" THEN "USD" ELSE IF currency = "brl" THEN "BRL" ELSE "EUR"

\* C2: after updateAccountValue(id, c, v) the edited account's field c is v and
\* each other field is convert(v, c, other, rates) under the draft's rates at the
\* edit; usd = 200 with usdToBrl = 5.5 gives brl = 1100 and eur = 1100 / eurToBrl.
C2_LinkedBalances ==
  lastOp.op = "updateAccountValue" =>
    \A i \in DOMAIN currentWeek.accounts :
      currentWeek.accounts[i].id = lastOp.id =>
        LET account == currentWeek.accounts[i]
            rates == currentWeek.rates
        IN /\ \A other \in Currencies :
                account[Field(other)] =
                  IF other = Upper(lastOp.cur) THEN lastOp.val
                  ELSE convertValue(lastOp.val, Upper(lastOp.cur), other, rates)
           /\ (lastOp.cur = "usd" /\ lastOp.val = FromInt(200)
               /\ rates.usdToBrl = Decimal2(550)) =>
                 /\ account.brl = FromInt(1100)
                 /\ account.eur = Div(FromInt(1100), rates.eurToBrl)

\* usd was edited to 200 while usdToBrl was 5.5.
C2_Witness ==
  /\ lastOp.op = "updateAccountValue"
  /\ lastOp.cur = "usd"
  /\ lastOp.val = FromInt(200)
  /\ currentWeek.rates.usdToBrl = Decimal2(550)
  /\ \E i \in DOMAIN currentWeek.accounts :
       /\ currentWeek.accounts[i].id = lastOp.id
       /\ currentWeek.accounts[i].brl = FromInt(1100)
       /\ IsPositive(currentWeek.accounts[i].eur)

\* C3: a rate edit sets the named rate and nothing else of the draft: the account
\* list, every balance, the three totals, the other rates, the date and the
\* identifier stay as they were.
C3_RateEditFrame ==
  [][(events' # events /\ lastOp'.op = "updateExchangeRate") =>
       /\ currentWeek'.accounts = currentWeek.accounts
       /\ currentWeek'.totalUsd = currentWeek.totalUsd
       /\ currentWeek'.totalBrl = currentWeek.totalBrl
       /\ currentWeek'.totalEur = currentWeek.totalEur
       /\ currentWeek'.date = currentWeek.date
       /\ currentWeek'.id = currentWeek.id
       /\ \A r \in RateTypes :
            currentWeek'.rates[r] = IF r = lastOp'.cur THEN lastOp'.val
                                    ELSE currentWeek.rates[r]]_vars

\* A rate was edited after a balance was entered: the balance no longer agrees
\* with the rate in force.
C3_Witness ==
  /\ lastOp.op = "updateExchangeRate"
  /\ lastOp.cur = "usdToBrl"
  /\ \E i \in DOMAIN currentWeek.accounts :
       /\ currentWeek.accounts[i].usd = FromInt(200)
       /\ currentWeek.accounts[i].brl # Mul(FromInt(200), currentWeek.rates.usdToBrl)

ConvApplied == conv.pc \in {"direct", "pivot", "twoStep", "done"}

\* C4: for distinct currencies convert returns the pivot, x * usdToBrl from USD,
\* x * eurToBrl from EUR and x from BRL, divided by usdToBrl for target USD, by
\* eurToBrl for target EUR and left as it is for target BRL; with usdToBrl = 5 and
\* eurToBrl = 6, convert(100, USD, BRL) is 500.
C4_PivotFormula ==
  (ConvApplied /\ conv.from # conv.to) =>
    LET pivot == IF conv.from = "USD" THEN Mul(conv.x, conv.rates.usdToBrl)
                 ELSE IF conv.from = "EUR" THEN Mul(conv.x, conv.rates.eurToBrl)
                 ELSE conv.x
    IN /\ conv.direct = IF conv.to = "USD" THEN Div(pivot, conv.rates.usdToBrl)
                        ELSE IF conv.to = "EUR" THEN Div(pivot, conv.rates.eurToBrl)
                        ELSE pivot
       /\ (conv.x = FromInt(100) /\ conv.from = "USD" /\ conv.to = "BRL"
           /\ conv.rates.usdToBrl = FromInt(5)) => conv.direct = FromInt(500)

\* convert(100, USD, BRL) under usdToBrl = 5, eurToBrl = 6 was computed.
C4_Witness ==
  /\ conv.pc = "direct"
  /\ conv.x = FromInt(100) /\ conv.from = "USD" /\ conv.to = "BRL"
  /\ conv.rates.usdToBrl = FromInt(5) /\ conv.rates.eurToBrl = FromInt(6)
  /\ conv.direct = FromInt(500)

\* C5: convert(x, C, C, rates) is x for every currency, amount and rate set, zero
\* and negative rates included, and no multiplication or division is performed.
C5_SameCurrencyIdentity ==
  (ConvApplied /\ conv.from = conv.to) => (conv.direct = conv.x /\ conv.ops = 0)

\* convert(7, USD, USD) was computed under a zero usdToBrl.
C5_Witness ==
  /\ conv.pc = "direct"
  /\ conv.from = "USD" /\ conv.to = "USD"
  /\ conv.x = FromInt(7)
  /\ conv.rates.usdToBrl = Zero
  /\ conv.direct = FromInt(7)

\* C6: convert(x, USD, EUR) equals convert(convert(x, USD, BRL), BRL, EUR), and
\* likewise from EUR to USD.
C6_CrossViaPivot ==
  (conv.pc \in {"twoStep", "done"} /\ conv.from # conv.to
   /\ conv.from \in {"USD", "EUR"} /\ conv.to \in {"USD", "EUR"}) =>
     conv.direct = conv.twoStep

\* 200 USD was converted to EUR both ways under the default rates, with roundings.
C6_Witness ==
  /\ conv.pc = "twoStep"
  /\ conv.from = "USD" /\ conv.to = "EUR"
  /\ conv.x = FromInt(200)
  /\ conv.rates.usdToBrl = Decimal2(555) /\ conv.rates.eurToBrl = Decimal2(615)
  /\ IsPositive(conv.direct)
  /\ conv.direct = conv.twoStep

RoundTrip ==
  /\ conv.pc = "done"
  /\ conv.to = "BRL" /\ conv.from \in {"USD", "EUR"}
  /\ IsFinite(conv.x)
  /\ IsPositive(conv.rates.usdToBrl) /\ IsPositive(conv.rates.eurToBrl)

\* |a - b| <= |b| * 2^-(Prec - 1): a is b up to the error of two roundings.
WithinTolerance(a, b) ==
  \/ a = b
  \/ /\ IsFinite(a) /\ IsFinite(b)
     /\ Sgn(a.m) = Sgn(b.m) /\ b.m # 0
     /\ Abs((a.e + BitLen(Abs(a.m))) - (b.e + BitLen(Abs(b.m)))) <= 1
     /\ LET lo == IF a.e < b.e THEN a.e ELSE b.e
            ia == Abs(a.m) * Pow2(a.e - lo)
            ib == Abs(b.m) * Pow2(b.e - lo)
        IN Abs(ia - ib) <= ib \div Pow2(Prec - 1)

\* C7 as claimed: under positive rates, USD to BRL and back returns x itself, and
\* so does EUR to BRL and back.
C7_RoundTripExact == RoundTrip => conv.back = conv.x

\* C7 as amended: under positive rates the round trip returns x up to the
\* rounding of its one multiplication and one division, a relative error of at
\* most 2^-(Prec - 1).
C7_RoundTripWithinTolerance == RoundTrip => WithinTolerance(conv.back, conv.x)

\* 7 USD went to BRL and back under usdToBrl = 5.55 and did not come back as 7.
C7_Witness ==
  /\ RoundTrip
  /\ conv.from = "USD"
  /\ conv.x = FromInt(7)
  /\ conv.rates.usdToBrl = Decimal2(555)
  /\ conv.back # conv.x
  /\ WithinTolerance(conv.back, conv.x)

\* C8: in every reachable state the draft's three rates are strictly positive.
C8_RatesPositive ==
  /\ IsPositive(currentWeek.rates.usdToBrl)
  /\ IsPositive(currentWeek.rates.eurToBrl)
  /\ IsPositive(currentWeek.rates.btcToUsd)

IsAppendOrClear(old, new) ==
  \/ new = old
  \/ Len(new) = 0
  \/ Len(new) = Len(old) + 1 /\ SubSeq(new, 1, Len(old)) = old

StoredWeeks(entry) == IF entry = <<>> THEN <<>> ELSE entry[1]

\* C9: while the dashboard is mounted, every change to the saved periods, in
\* memory and in storage, appends one snapshot at the end or clears the
\* collection.
C9_AppendOrClearOnly ==
  [][(showDetailed /\ showDetailed') =>
       /\ IsAppendOrClear(savedWeeks, savedWeeks')
       /\ IsAppendOrClear(StoredWeeks(storage), StoredWeeks(storage'))]_vars

Count(weeks, w) == Cardinality({i \in DOMAIN weeks : weeks[i] = w})

Kept(old, new) == \A i \in DOMAIN old : Count(new, old[i]) >= Count(old, old[i])

\* C10: a saved snapshot stays in the collection, in memory and in storage, with
\* its date, rates, accounts and totals as saved, under every operation of the
\* mounted dashboard other than Clear All Data.
C10_SnapshotsImmutable ==
  [][(showDetailed /\ showDetailed'
      /\ ~(events' # events /\ lastOp'.op = "clearAllData")) =>
       /\ Kept(savedWeeks, savedWeeks')
       /\ Kept(StoredWeeks(storage), StoredWeeks(storage'))]_vars

\* A balance of the draft was edited after the draft was saved: the snapshot
\* still shows the balances it was saved with.
C10_Witness ==
  /\ lastOp.op = "updateAccountValue"
  /\ Len(savedWeeks) = 1
  /\ Len(savedWeeks[1].accounts) = 1
  /\ savedWeeks[1].totalUsd = Zero
  /\ currentWeek.totalUsd = FromInt(200)
  /\ StoredWeeks(storage) = savedWeeks

\* C11: createNewWeek leaves a draft with the outgoing draft's rates, the same
\* account names in the same order, every balance and total 0, and account
\* identifiers that all differ from the outgoing draft's identifiers.
C11_NewWeekDraft ==
  (lastOp.op = "createNewWeek" /\ previousWeek # <<>>) =>
    LET old == previousWeek[1]
        new == currentWeek
    IN /\ new.rates = old.rates
       /\ Len(new.accounts) = Len(old.accounts)
       /\ \A i \in DOMAIN new.accounts :
            /\ new.accounts[i].name = old.accounts[i].name
            /\ new.accounts[i].usd = Zero
            /\ new.accounts[i].brl = Zero
            /\ new.accounts[i].eur = Zero
       /\ new.totalUsd = Zero /\ new.totalBrl = Zero /\ new.totalEur = Zero
       /\ \A i \in DOMAIN new.accounts, j \in DOMAIN old.accounts :
            new.accounts[i].id # old.accounts[j].id

\* C12: in every reachable state no two accounts of the draft share an
\* identifier, whatever the clock readings of the operations that built them.
C12_UniqueIds ==
  \A i \in DOMAIN currentWeek.accounts, j \in DOMAIN currentWeek.accounts :
    i # j => currentWeek.accounts[i].id # currentWeek.accounts[j].id

\* convert(totalUsd, USD, T) + convert(totalBrl, BRL, T) + convert(totalEur, EUR, T)
SumOfConverted(week, target) ==
  Add(Add(convertValue(week.totalUsd, "USD", target, week.rates),
          convertValue(week.totalBrl, "BRL", target, week.rates)),
      convertValue(week.totalEur, "EUR", target, week.rates))

TotalsApplied == calc.pc \in {"brl", "moved", "done"}

\* C13: the portfolio total of a period in a target currency is the sum of the
\* period's three totals, each converted to the target by convert under the
\* period's own rates; totals {usd: 0, brl: 1000, eur: 0} with usdToBrl = 5 give
\* 200 in USD.  (The program computes the total in USD and in BRL.)
C13_TotalInCurrency ==
  TotalsApplied =>
    /\ calc.inUsd = SumOfConverted(calc.week, "USD")
    /\ calc.inBrl = SumOfConverted(calc.week, "BRL")
    /\ calc.summary = SumOfConverted(calc.week, "BRL")
    /\ (calc.week.totalUsd = Zero /\ calc.week.totalBrl = FromInt(1000)
        /\ calc.week.totalEur = Zero /\ calc.week.rates.usdToBrl = FromInt(5)) =>
          calc.inUsd = FromInt(200)

\* The totals {usd: 0, brl: 1000, eur: 0} were brought to USD at usdToBrl = 5.
C13_Witness ==
  /\ calc.pc = "brl"
  /\ calc.week.totalUsd = Zero /\ calc.week.totalBrl = FromInt(1000)
  /\ calc.week.totalEur = Zero /\ calc.week.rates.usdToBrl = FromInt(5)
  /\ calc.inUsd = FromInt(200)
  /\ calc.inBrl = FromInt(1000)

\* An account whose three balances are conversions of one of them under the rates.
Linked(account, rates) ==
  \E c \in Currencies : \A other \in Currencies \ {c} :
    account[Field(other)] = convertValue(account[Field(c)], c, other, rates)

\* C14: when every account of the draft holds linked balances, the draft's
\* portfolio total in BRL is the sum of the accounts' BRL balances, each account
\* counted once.
C14_TotalCountsEachAccountOnce ==
  (showDetailed /\ \A i \in DOMAIN currentWeek.accounts :
                     Linked(currentWeek.accounts[i], currentWeek.rates)) =>
    getTotalPortfolioInBrl(currentWeek) =
      FieldSum(currentWeek.accounts, "brl", Len(currentWeek.accounts))

\* |a - b| <= |b| * 2^-(Prec - 3): a is b up to the error of four roundings.
WithinFourRoundings(a, b) ==
  \/ a = b
  \/ /\ IsFinite(a) /\ IsFinite(b)
     /\ Sgn(a.m) = Sgn(b.m) /\ b.m # 0
     /\ Abs((a.e + BitLen(Abs(a.m))) - (b.e + BitLen(Abs(b.m)))) <= 1
     /\ LET lo == IF a.e < b.e THEN a.e ELSE b.e
            ia == Abs(a.m) * Pow2(a.e - lo)
            ib == Abs(b.m) * Pow2(b.e - lo)
        IN Abs(ia - ib) <= ib \div Pow2(Prec - 3)

\* A period holding a finite amount in one currency was re-recorded in another
\* under positive rates, and both periods were totalled.
Rerecorded ==
  /\ calc.pc = "done"
  /\ IsFinite(TotalOf(calc.week, calc.from))
  /\ IsPositive(calc.week.rates.usdToBrl) /\ IsPositive(calc.week.rates.eurToBrl)

\* C15 as claimed: under positive rates a period holding v in C and a period
\* holding convert(v, C, D) in D have the same portfolio total in USD and in BRL.
C15_SameTotalExact ==
  Rerecorded => (calc.movedInUsd = calc.inUsd /\ calc.movedInBrl = calc.inBrl)

\* C15 as amended: the two totals agree up to the rounding of the at most four
\* multiplications and divisions that lead from v to the second total, a
\* relative error of at most 2^-(Prec - 3).
C15_SameTotalWithinRounding ==
  Rerecorded => /\ WithinFourRoundings(calc.movedInUsd, calc.inUsd)
                /\ WithinFourRoundings(calc.movedInBrl, calc.inBrl)

\* 7 USD re-recorded in BRL at usdToBrl = 5.55 do not total 7 USD again.
C15_Witness ==
  /\ Rerecorded
  /\ calc.from = "USD" /\ calc.to = "BRL"
  /\ calc.week.totalUsd = FromInt(7)
  /\ calc.week.rates.usdToBrl = Decimal2(555)
  /\ calc.movedInUsd # calc.inUsd
  /\ WithinFourRoundings(calc.movedInUsd, calc.inUsd)
  /\ calc.movedInBrl = calc.inBrl

Formula(current, previous) ==
  Mul(Div(Sub(current, previous), previous), FromInt(100))

\* C16: for every current value and every previous value that is present and
\* not zero, positive or negative, the percent change is
\* ((current - previous) / previous) * 100; (110, 100) gives 10 and (90, 100)
\* gives -10.
C16_PercentChangeFormula ==
  (calc.pc \in {"variation", "trend"} /\ calc.prev # <<>>
   /\ ToNumber(calc.previousTotal) # Zero) =>
     /\ calc.variation = Formula(calc.currentTotal, calc.previousTotal)
     /\ (calc.currentTotal = FromInt(110) /\ calc.previousTotal = FromInt(100)) =>
          calc.variation = FromInt(10)
     /\ (calc.currentTotal = FromInt(90) /\ calc.previousTotal = FromInt(100)) =>
          calc.variation = FromInt(-10)

\* C17: when there is no previous period or its total is zero, the variation is
\* the neutral outcome for every current value: no division is performed and the
\* trend shown is neither up nor down.
C17_NoTrendWithoutPrevious ==
  (calc.pc = "trend" /\ (calc.prev = <<>> \/ ToNumber(calc.previousTotal) = Zero)) =>
    /\ calc.divisions = 0
    /\ calc.variation = Zero
    /\ calc.trend = "none"

\* C18: the trend shown is up exactly when the variation is positive, down
\* exactly when it is negative, and neutral exactly when it is zero.
C18_DirectionBySign ==
  calc.pc = "trend" =>
    /\ calc.trend = "up" <=> IsPositive(calc.variation)
    /\ calc.trend = "down" <=> IsNegative(calc.variation)
    /\ calc.trend = "none" <=> ToNumber(calc.variation) = Zero

\* The least exponent among a field's values in a list of accounts, 0 at most.
RECURSIVE ExpFloor(_, _, _)
ExpFloor(accounts, field, n) ==
  IF n = 0 THEN 0
  ELSE LET rest == ExpFloor(accounts, field, n - 1)
           e == accounts[n][field].e
       IN IF e < rest THEN e ELSE rest

\* The finite number x as a multiple of 2^lo.
Scaled(x, lo) == x.m * Pow2(x.e - lo)

\* The sum of the magnitudes of a field's values, as a multiple of 2^lo.
RECURSIVE SumAbs(_, _, _, _)
SumAbs(accounts, field, n, lo) ==
  IF n = 0 THEN 0
  ELSE SumAbs(accounts, field, n - 1, lo) + Abs(Scaled(accounts[n][field], lo))

\* |new - old| <= n * 2^-(Prec - 1) * (|x1| + ... + |xn|) for the field's total.
TotalWithinRounding(old, new, field, total) ==
  LET n == Len(old.accounts)
      lo == ExpFloor(old.accounts, field, n)
  IN Abs(Scaled(new[total], lo) - Scaled(old[total], lo)) * Pow2(Prec - 1)
       <= n * SumAbs(old.accounts, field, n, lo)

Reordered == calc.pc = "draft" /\ calc.drags > 0

\* C19 as claimed: the totals of a reordered account list are the totals of the
\* list before; a drag reorder leaves totalUsd, totalBrl and totalEur unchanged.
C19_ReorderKeepsTotalsExact ==
  Reordered =>
    /\ calc.reordered.totalUsd = calc.draft.totalUsd
    /\ calc.reordered.totalBrl = calc.draft.totalBrl
    /\ calc.reordered.totalEur = calc.draft.totalEur

\* C19 as amended: the totals of a reordered list of n accounts are those of the
\* list before up to the rounding of the additions, at most
\* n * 2^-(Prec - 1) * (|x1| + ... + |xn|) apart in each currency, and the same
\* when the list has at most two accounts.
C19_ReorderKeepsTotalsWithinRounding ==
  Reordered =>
    /\ TotalWithinRounding(calc.draft, calc.reordered, "usd", "totalUsd")
    /\ TotalWithinRounding(calc.draft, calc.reordered, "brl", "totalBrl")
    /\ TotalWithinRounding(calc.draft, calc.reordered, "eur", "totalEur")
    /\ Len(calc.draft.accounts) <= 2 =>
         /\ calc.reordered.totalUsd = calc.draft.totalUsd
         /\ calc.reordered.totalBrl = calc.draft.totalBrl
         /\ calc.reordered.totalEur = calc.draft.totalEur

\* Three accounts were reordered and a total came out differently, within the
\* rounding of its additions.
C19_Witness ==
  /\ Reordered
  /\ Len(calc.draft.accounts) = 3
  /\ calc.reordered.accounts # calc.draft.accounts
  /\ \/ calc.reordered.totalUsd # calc.draft.totalUsd
     \/ calc.reordered.totalBrl # calc.draft.totalBrl
     \/ calc.reordered.totalEur # calc.draft.totalEur
  /\ TotalWithinRounding(calc.draft, calc.reordered, "usd", "totalUsd")
  /\ TotalWithinRounding(calc.draft, calc.reordered, "brl", "totalBrl")
  /\ TotalWithinRounding(calc.draft, calc.reordered, "eur", "totalEur")

\* C20: the totals of an empty account list are 0: a draft without accounts,
\* such as the one left by removing the last account, has totalUsd, totalBrl and
\* totalEur equal to 0.
C20_EmptyListTotalsZero ==
  Len(currentWeek.accounts) = 0 =>
    /\ currentWeek.totalUsd = Zero
    /\ currentWeek.totalBrl = Zero
    /\ currentWeek.totalEur = Zero

\* The only account of the draft was removed after the draft was saved with
\* money in it.
C20_Witness ==
  /\ lastOp.op = "removeAccount"
  /\ Len(currentWeek.accounts) = 0
  /\ currentWeek.totalUsd = Zero
  /\ Len(savedWeeks) = 1
  /\ Len(savedWeeks[1].accounts) = 1
  /\ savedWeeks[1].accounts[1].id = lastOp.id
  /\ IsPositive(savedWeeks[1].totalUsd)

NonFinite(x) == x.k \in {"inf", "nan"}

RateDividedBy(target) ==
  IF target = "USD" THEN currentWeek.rates.usdToBrl ELSE currentWeek.rates.eurToBrl

\* C21: when the rate a conversion divides by is zero, the balance edit is still
\* applied: the edited field holds the value entered, the target field of the
\* division holds its non-finite result, and so does the draft's total of that
\* currency.
C21_ZeroRatePropagates ==
  lastOp.op = "updateAccountValue" =>
    \A target \in {"USD", "EUR"} :
      (target # Upper(lastOp.cur) /\ ToNumber(RateDividedBy(target)) = Zero) =>
        /\ \A i \in DOMAIN currentWeek.accounts :
             currentWeek.accounts[i].id = lastOp.id =>
               /\ currentWeek.accounts[i][lastOp.cur] = lastOp.val
               /\ NonFinite(currentWeek.accounts[i][Field(target)])
        /\ NonFinite(IF target = "USD" THEN currentWeek.totalUsd ELSE currentWeek.totalEur)

\* 200 was entered in BRL while usdToBrl was 0: the account's USD balance and the
\* draft's USD total are Infinity.
C21_Witness ==
  /\ lastOp.op = "updateAccountValue"
  /\ lastOp.cur = "brl"
  /\ lastOp.val = FromInt(200)
  /\ currentWeek.rates.usdToBrl = Zero
  /\ currentWeek.totalUsd = Inf(1)
  /\ \E i \in DOMAIN currentWeek.accounts :
       /\ currentWeek.accounts[i].id = lastOp.id
       /\ currentWeek.accounts[i].usd = Inf(1)
       /\ currentWeek.accounts[i].brl = FromInt(200)

NonNumeric(text) == parseFloat(cleanValue(text)).k = "nan"

\* C22: every non-numeric entry in a balance field or a rate field reaches the
\* engine as 0: the edited field becomes 0 and the linked fields and the totals
\* are recomputed from 0.
C22_NonNumericIsZero ==
  /\ (lastOp.op \in {"updateAccountValue", "ignoredBalanceInput"}
      /\ NonNumeric(lastOp.txt)) =>
        /\ \A i \in DOMAIN currentWeek.accounts :
             currentWeek.accounts[i].id = lastOp.id =>
               /\ currentWeek.accounts[i][lastOp.cur] = Zero
               /\ lastOp.op = "updateAccountValue" =>
                    \A other \in Currencies :
                      currentWeek.accounts[i][Field(other)] =
                        convertValue(Zero, Upper(lastOp.cur), other, currentWeek.rates)
        /\ C1_TotalsAreSums
  /\ (lastOp.op = "updateExchangeRate" /\ parseFloat(lastOp.txt).k = "nan") =>
        currentWeek.rates[lastOp.cur] = Zero

\* C23: after clearAllData the saved collection held in memory is empty, the
\* storage entry is absent, there is no previous period, and the draft has no
\* accounts and three zero totals.
C23_ClearAllResets ==
  lastOp.op = "clearAllData" =>
    /\ savedWeeks = <<>>
    /\ storage = <<>>
    /\ previousWeek = <<>>
    /\ currentWeek.accounts = <<>>
    /\ currentWeek.totalUsd = Zero
    /\ currentWeek.totalBrl = Zero
    /\ currentWeek.totalEur = Zero

\* All data was cleared as the fifth event, after the clock had been read at 1
\* by an earlier Add Account, Save Week or New Week.
C23_Witness ==
  /\ lastOp.op = "clearAllData"
  /\ events = 5
  /\ now = 1
  /\ savedWeeks = <<>>
  /\ storage = <<>>

\* C24: while the dashboard is mounted, the saved collection held in memory and
\* the list in storage hold the same snapshots in the same order (a number that
\* is not finite is compared as storage writes it, as null).
C24_MemoryMatchesStorage ==
  showDetailed => JsonWeeks(savedWeeks) = StoredWeeks(storage)

\* The greatest date among a list of periods.
NewestDate(weeks) ==
  CHOOSE d \in {weeks[i].date : i \in DOMAIN weeks} :
    \A i \in DOMAIN weeks : weeks[i].date <= d

\* C25: once the user has saved a period in the dashboard and gone back to the
\* summary, the summary's latest period is the newest-dated period storage holds.
C25_SummaryShowsNewestStored ==
  (~showDetailed /\ lastOp.op = "onBack" /\ StoredWeeks(storage) # <<>>) =>
    /\ latestWeek # <<>>
    /\ latestWeek[1].date = NewestDate(StoredWeeks(storage))

\* C26: a balance edit changes the balances of the one account edited and of no
\* other account; names, identifiers, list order, rates, date and the saved
\* collection stay as they were.
C26_BalanceEditFrame ==
  [][(events' # events /\ lastOp'.op = "updateAccountValue") =>
       /\ Len(currentWeek'.accounts) = Len(currentWeek.accounts)
       /\ \A j \in DOMAIN currentWeek.accounts :
            /\ currentWeek'.accounts[j].id = currentWeek.accounts[j].id
            /\ currentWeek'.accounts[j].name = currentWeek.accounts[j].name
       /\ \E i \in DOMAIN currentWeek.accounts :
            /\ currentWeek.accounts[i].id = lastOp'.id
            /\ \A j \in DOMAIN currentWeek.accounts \ {i} :
                 currentWeek'.accounts[j] = currentWeek.accounts[j]
       /\ currentWeek'.rates = currentWeek.rates
       /\ currentWeek'.date = currentWeek.date
       /\ currentWeek'.id = currentWeek.id
       /\ savedWeeks' = savedWeeks
       /\ storage' = storage]_vars

\* C27: saveCurrentWeek leaves the draft as it is, its identifier empty, and
\* appends one snapshot with the draft's date, rates, accounts and totals to the
\* saved collection, which it writes to storage: each save grows the collection
\* by one.
C27_SaveAppendsDraft ==
  [][(events' # events /\ lastOp'.op = "saveCurrentWeek") =>
       /\ currentWeek' = currentWeek
       /\ currentWeek'.id = <<>>
       /\ Len(savedWeeks') = Len(savedWeeks) + 1
       /\ SubSeq(savedWeeks', 1, Len(savedWeeks)) = savedWeeks
       /\ [savedWeeks'[Len(savedWeeks')] EXCEPT !.id = <<>>] = currentWeek
       /\ savedWeeks'[Len(savedWeeks')].id # <<>>
       /\ StoredWeeks(storage') = JsonWeeks(savedWeeks')]_vars

\* The same draft was saved three times in a row.
C27_Witness ==
  /\ lastOp.op = "saveCurrentWeek"
  /\ Len(savedWeeks) = 3
  /\ Len(StoredWeeks(storage)) = 3
  /\ \A i \in DOMAIN savedWeeks :
       /\ savedWeeks[i].date = currentWeek.date
       /\ savedWeeks[i].accounts = currentWeek.accounts
  /\ currentWeek.id = <<>>

\* C28: createNewWeek leaves the saved collection and storage as they are and
\* sets the previous period to the outgoing draft, saved or not.
C28_NewWeekFrame ==
  [][(events' # events /\ lastOp'.op = "createNewWeek") =>
       /\ savedWeeks' = savedWeeks
       /\ storage' = storage
       /\ previousWeek' = <<currentWeek>>]_vars

\* A new week was started from a draft with an account that was never saved,
\* while storage held an earlier snapshot.
C28_Witness ==
  /\ lastOp.op = "createNewWeek"
  /\ previousWeek # <<>>
  /\ Len(previousWeek[1].accounts) = 1
  /\ Len(savedWeeks) = 1
  /\ Len(savedWeeks[1].accounts) = 0
  /\ StoredWeeks(storage) = savedWeeks

\* The date a is no earlier than the date b, if b is a date at all.
DateAtLeast(a, b) == b = EmptyDate \/ (a # EmptyDate /\ a >= b)

\* The date a is at least every date of the periods at the given indices.
NewestAmong(a, weeks, indices) == \A k \in indices : DateAtLeast(a, weeks[k].date)

\* C29: when the summary loads a non-empty stored collection, its latest period
\* is a stored period whose date is at least every stored date, its previous
\* period is a stored period with the greatest date among the others, and the
\* previous period is absent exactly when fewer than two periods are stored.
C29_SummaryLoadsNewest ==
  (calc.pc = "loaded" /\ Len(calc.stored) > 0) =>
    /\ calc.latest # <<>>
    /\ calc.second = <<>> <=> Len(calc.stored) < 2
    /\ \E i \in DOMAIN calc.stored :
         /\ calc.stored[i] = calc.latest[1]
         /\ NewestAmong(calc.latest[1].date, calc.stored, DOMAIN calc.stored)
         /\ calc.second # <<>> =>
              \E j \in DOMAIN calc.stored \ {i} :
                /\ calc.stored[j] = calc.second[1]
                /\ NewestAmong(calc.second[1].date, calc.stored, DOMAIN calc.stored \ {i})

\* C30: in each series of the analytics dashboard the variation of the first
\* period is 0, and the variation of a later period is
\* ((total_i - total_{i-1}) / total_{i-1}) * 100 against the entry before it in
\* the collection when total_{i-1} > 0, and 0 otherwise.
C30_SeriesVariation ==
  calc.pc = "charted" =>
    \A series \in {calc.usdEvolution, calc.brlEvolution} :
      \A i \in DOMAIN series :
        series[i].variation =
          IF i = 1 THEN Zero
          ELSE IF IsPositive(series[i - 1].value)
            THEN Formula(series[i].value, series[i - 1].value)
            ELSE Zero

=============================================================================
